---- MODULE Spec2Model ----
(***************************************************************************)
(* DMX512 receiver sketch (src/arduino/code.c): the frame assembler        *)
(* receiveDMX, the control loop with its print and signal-loss timers, and *)
(* the reader functions getDMXChannel and isDMXConnected.                  *)
(*                                                                         *)
(* Time is one microsecond clock, now; micros() and millis() are read from *)
(* it as wrapping counters.  A loop iteration takes no model time of its   *)
(* own: time passes in the Tick actions, between iterations and while      *)
(* printDMXData is writing to the console.                                 *)
(***************************************************************************)
EXTENDS Integers, Sequences, FiniteSets, TLC

\* ---------------------------------------------------------------- bounds
\* Number of channel slots of a frame in the model (512 in the sketch).
DMX_CHANNELS == 2
\* Byte values on the wire are 0..MaxByte (0..255 in the sketch).
MaxByte == 1
\* Capacity of the serial receive buffer in the model.
MaxQueue == 1
\* The clock stops advancing at MaxMillis milliseconds.
MaxMillis == 2002
\* Sub-millisecond steps are taken only up to this offset in a millisecond.
MaxSubMs == 89
\* The run that waits for the signal-loss timeout lasts LossMillis
\* milliseconds, the run with frames in quick succession StreamMillis.
LossMillis == 7007
StreamMillis == 2004
\* The run across the wrap of micros() starts WrapLead microseconds before
\* the wrap and ends WrapTail microseconds after it.
WrapLead == 89
WrapTail == 178
\* micros() and millis() wrap at CounterWrap (2^32 in the sketch; 2^30 is
\* the widest counter whose differences fit the model checker's integers).
CounterWrap == 1073741824

\* ------------------------------------------------------- program constants
DMX_START_CODE == 0
BreakGap == 88
PrintInterval == 1000
SignalTimeout == 5000
ConnectedWindow == 2000

\* Steps of the clock: the longest gap that is no break and the shortest
\* break, and the shortest wait that passes the print interval.
MicroSteps == {BreakGap, BreakGap + 1}
MilliSteps == {PrintInterval + 1}

Byte == 0..MaxByte
\* Variant: the array declared without the slot of the start code.
SlotsWithoutStartCode == 0..(DMX_CHANNELS - 1)
Slots == 0..DMX_CHANNELS
Channels == 1..DMX_CHANNELS

VARIABLES
  dmxData,          \* uint8_t dmxData[DMX_CHANNELS + 1]
  dmxFrameReceived, \* bool
  lastFrameTime,    \* unsigned long, milliseconds
  dmxState,         \* 0 = waiting for break, 1 = receiving data
  channelCount,     \* int, next slot to fill
  inBreak,          \* bool
  lastByteTime,     \* static unsigned long of receiveDMX, microseconds
  rxBuf,            \* bytes waiting in the SoftwareSerial receive buffer
  now,              \* the clock, microseconds since start
  pc,               \* "loop": between iterations, "print": in printDMXData
  \* history variables, read by no action of the program
  ev,               \* what receiveDMX did with the last byte it processed
  wr,               \* index of the last write to dmxData, -1 before any
  brk,              \* break flag of the last processed byte
  run,              \* bytes processed since the last break-flagged 0x00
  published,        \* dmxData as it was when the last frame completed
  everCompleted,    \* some frame has completed
  completedAt,      \* millis() at the last frame completion
  cutAt,            \* channelCount of the frame in progress that the last
                    \* processed byte cut short by its break flag, else 0
  malformed,        \* some processed byte was a bad start code, was
                    \* discarded in Idle, or cut a frame short
  rxAt,             \* for each byte of rxBuf, the clock at its arrival
  prevAt,           \* the clock at the arrival of the last processed byte
  lastByteAt,       \* the clock when the last byte was processed
  gap,              \* time from the processed byte before the last to the
                    \* last, at most BreakGap + 1; -1 before the second byte
  lost,             \* the signal-lost branch was taken since the last
                    \* frame completion
  printRef          \* millis() when printDMXData was last called or, before
                    \* its first call, when dmxFrameReceived became true

progVars == <<dmxData, dmxFrameReceived, lastFrameTime, dmxState,
              channelCount, inBreak, lastByteTime>>
histVars == <<ev, wr, brk, run, published, everCompleted, completedAt,
              cutAt, malformed, prevAt, lastByteAt, gap, lost, printRef>>
vars == <<dmxData, dmxFrameReceived, lastFrameTime, dmxState, channelCount,
          inBreak, lastByteTime, rxBuf, now, pc,
          ev, wr, brk, run, published, everCompleted, completedAt,
          cutAt, malformed, rxAt, prevAt, lastByteAt, gap, lost, printRef>>

\* ------------------------------------------------------------------ clock
\* Variant: the difference taken as a signed number, without wrapping.
Sub32Signed(a, b) == a - b

\* unsigned long subtraction
Sub32(a, b) == (a - b) % CounterWrap
micros == now % CounterWrap
millis == (now \div 1000) % CounterWrap

\* ---------------------------------------------------- receiveDMX, in parts
\* The fields receiveDMX works on, as a record.
Cur == [dmxData |-> dmxData, dmxFrameReceived |-> dmxFrameReceived,
        lastFrameTime |-> lastFrameTime, dmxState |-> dmxState,
        channelCount |-> channelCount, inBreak |-> inBreak,
        lastByteTime |-> lastByteTime, ev |-> ev, wr |-> wr]

\* dmxData[i] = b; a write outside the array leaves the array as it is.
Store(s, i, b) ==
  [s EXCEPT !.dmxData = IF i \in Slots THEN [@ EXCEPT ![i] = b] ELSE @,
            !.wr = i]

\* currentTime - lastByteTime > 88
BreakFlag(last, currentTime) == Sub32(currentTime, last) > BreakGap

\* Variant: the break does not reset channelCount.
BreakCheckKeepsCount(s, currentTime) ==
  IF BreakFlag(s.lastByteTime, currentTime)
  THEN [s EXCEPT !.dmxState = 1, !.inBreak = FALSE]
  ELSE s

\* Break detected, start new frame
BreakCheck(s, currentTime) ==
  IF BreakFlag(s.lastByteTime, currentTime)
  THEN [s EXCEPT !.dmxState = 1, !.channelCount = 0, !.inBreak = FALSE]
  ELSE s

\* Variant: an invalid start code does not leave the receiving state.
StartCodeStaysReceiving(s, b) ==
  IF b = DMX_START_CODE
  THEN [Store(s, 0, b) EXCEPT !.channelCount = @ + 1, !.ev = "start"]
  ELSE [s EXCEPT !.ev = "badstart"]

\* Variant: the byte is stored in slot 0 before it is checked.
StartCodeStoresFirst(s, b) ==
  IF b = DMX_START_CODE
  THEN [Store(s, 0, b) EXCEPT !.channelCount = @ + 1, !.ev = "start"]
  ELSE [Store(s, 0, b) EXCEPT !.dmxState = 0, !.ev = "badstart"]

\* channelCount == 0: the byte is the start code
StartCode(s, b) ==
  IF b = DMX_START_CODE
  THEN [Store(s, 0, b) EXCEPT !.channelCount = @ + 1, !.ev = "start"]
  ELSE [s EXCEPT !.dmxState = 0, !.ev = "badstart"]

\* Variant: the frame counts as complete one byte early (>= for >).
StoreChannelEarly(s, b, ms) ==
  LET t == [Store(s, s.channelCount, b) EXCEPT !.channelCount = @ + 1]
  IN  IF t.channelCount >= DMX_CHANNELS
      THEN [t EXCEPT !.dmxFrameReceived = TRUE, !.lastFrameTime = ms,
                     !.dmxState = 0, !.ev = "complete"]
      ELSE [t EXCEPT !.ev = "store"]

\* channelCount <= DMX_CHANNELS: the byte is channel data
StoreChannel(s, b, ms) ==
  LET t == [Store(s, s.channelCount, b) EXCEPT !.channelCount = @ + 1]
  IN  IF t.channelCount > DMX_CHANNELS
      THEN [t EXCEPT !.dmxFrameReceived = TRUE, !.lastFrameTime = ms,
                     !.dmxState = 0, !.ev = "complete"]
      ELSE [t EXCEPT !.ev = "store"]

\* Variant: the byte is handled without the check of dmxState.
receiveDMXAnyState(b, us, ms) ==
  LET s == [BreakCheck(Cur, us) EXCEPT !.lastByteTime = us]
  IN  IF s.channelCount = 0 THEN StartCode(s, b)
      ELSE IF s.channelCount <= DMX_CHANNELS THEN StoreChannel(s, b, ms)
      ELSE [s EXCEPT !.ev = "ignored"]

\* Variant: lastByteTime is updated at the end, which the early return of an
\* invalid start code skips.
receiveDMXLateStamp(b, us, ms) ==
  LET s == BreakCheck(Cur, us)
      t == IF s.dmxState = 1
           THEN IF s.channelCount = 0 THEN StartCode(s, b)
                ELSE IF s.channelCount <= DMX_CHANNELS
                     THEN StoreChannel(s, b, ms)
                ELSE [s EXCEPT !.ev = "ignored"]
           ELSE [s EXCEPT !.ev = "discard"]
  IN  IF t.ev = "badstart" THEN t ELSE [t EXCEPT !.lastByteTime = us]

\* The body of receiveDMX for an available byte b, with micros() = us at
\* line 59 and millis() = ms at line 91.
receiveDMX(b, us, ms) ==
  LET s == [BreakCheck(Cur, us) EXCEPT !.lastByteTime = us]
  IN  IF s.dmxState = 1
      THEN IF s.channelCount = 0 THEN StartCode(s, b)
           ELSE IF s.channelCount <= DMX_CHANNELS THEN StoreChannel(s, b, ms)
           ELSE [s EXCEPT !.ev = "ignored"]
      ELSE [s EXCEPT !.ev = "discard"]

\* Check for timeout (no DMX signal)
TimeoutCheck(s, ms) ==
  IF Sub32(ms, s.lastFrameTime) > SignalTimeout /\ s.dmxFrameReceived
  THEN [s EXCEPT !.dmxFrameReceived = FALSE]
  ELSE s

\* if(dmxFrameReceived && (millis() - lastFrameTime > 1000))
PrintDue(s, ms) ==
  s.dmxFrameReceived /\ Sub32(ms, s.lastFrameTime) > PrintInterval

\* ---------------------------------------------------------------- readers
getDMXChannel(channel) ==
  IF channel >= 1 /\ channel <= DMX_CHANNELS /\ dmxFrameReceived
  THEN dmxData[channel] ELSE 0

\* Variant: the link status is taken from the elapsed time alone.
isDMXConnectedTimeOnly ==
  Sub32(millis, lastFrameTime) < ConnectedWindow

isDMXConnected ==
  dmxFrameReceived /\ Sub32(millis, lastFrameTime) < ConnectedWindow

\* ---------------------------------------------------------------- history
\* The run of bytes since the last break-flagged start code: it starts at
\* a break-flagged 0x00, grows by each byte without break flag up to a whole
\* frame, and is empty otherwise.
NextRun(b, isBrk) ==
  IF isBrk THEN (IF b = DMX_START_CODE THEN <<b>> ELSE <<>>)
  ELSE IF run # <<>> /\ Len(run) <= DMX_CHANNELS THEN Append(run, b)
  ELSE <<>>

\* ------------------------------------------------------------------- Init
Init ==
  /\ dmxData = [i \in Slots |-> 0]
  /\ dmxFrameReceived = FALSE
  /\ lastFrameTime = 0
  /\ dmxState = 0
  /\ channelCount = 0
  /\ inBreak = FALSE
  /\ lastByteTime = 0
  /\ rxBuf = <<>>
  /\ now = 0
  /\ pc = "loop"
  /\ ev = "none"
  /\ wr = -1
  /\ brk = FALSE
  /\ run = <<>>
  /\ published = [i \in Slots |-> 0]
  /\ everCompleted = FALSE
  /\ completedAt = 0
  /\ cutAt = 0
  /\ malformed = FALSE
  /\ rxAt = <<>>
  /\ prevAt = 0
  /\ lastByteAt = 0
  /\ gap = -1
  /\ lost = FALSE
  /\ printRef = 0

\* ---------------------------------------------------------------- actions
\* The fields of a record of receiveDMX become the next state.
Assign(s) ==
  /\ dmxData' = s.dmxData
  /\ dmxFrameReceived' = s.dmxFrameReceived
  /\ lastFrameTime' = s.lastFrameTime
  /\ dmxState' = s.dmxState
  /\ channelCount' = s.channelCount
  /\ inBreak' = s.inBreak
  /\ lastByteTime' = s.lastByteTime
  /\ ev' = s.ev
  /\ wr' = s.wr

\* A byte reaches the serial peripheral and is queued.
Arrive(b) ==
  /\ Len(rxBuf) < MaxQueue
  /\ rxBuf' = Append(rxBuf, b)
  /\ rxAt' = Append(rxAt, now)
  /\ UNCHANGED <<progVars, now, pc, histVars>>

\* loop(), up to the call of printDMXData or, when no print is due, to its
\* end: receiveDMX, the print check, the timeout check.
LoopBegin ==
  /\ pc = "loop"
  /\ LET got == rxBuf # <<>>
         r == IF got THEN receiveDMX(Head(rxBuf), micros, millis) ELSE Cur
         done == got /\ r.ev = "complete"
         flag == BreakFlag(lastByteTime, micros)
         cut == IF flag /\ dmxState = 1 THEN channelCount ELSE 0
         elapsed == now - lastByteAt
         checked == TimeoutCheck(r, millis)
     IN  /\ rxBuf' = IF got THEN Tail(rxBuf) ELSE rxBuf
         /\ rxAt' = IF got THEN Tail(rxAt) ELSE rxAt
         /\ prevAt' = IF got THEN Head(rxAt) ELSE prevAt
         /\ lastByteAt' = IF got THEN now ELSE lastByteAt
         /\ gap' = IF ~got THEN gap
                   ELSE IF ev = "none" THEN -1
                   ELSE IF elapsed > BreakGap THEN BreakGap + 1 ELSE elapsed
         /\ brk' = IF got THEN flag ELSE brk
         /\ run' = IF got THEN NextRun(Head(rxBuf), flag) ELSE run
         /\ cutAt' = IF got THEN cut ELSE cutAt
         /\ malformed' = (malformed \/ (got /\ (cut > 0
                               \/ r.ev \in {"badstart", "discard"})))
         /\ published' = IF done THEN r.dmxData ELSE published
         /\ everCompleted' = (everCompleted \/ done)
         /\ completedAt' = IF done THEN millis ELSE completedAt
         /\ IF PrintDue(r, millis)
            THEN /\ Assign(r)
                 /\ pc' = "print"
                 /\ printRef' = millis
                 /\ lost' = (lost /\ ~done)
            ELSE /\ Assign(checked)
                 /\ pc' = "loop"
                 /\ printRef' = IF done /\ ~dmxFrameReceived
                                THEN millis ELSE printRef
                 /\ lost' = ((lost /\ ~done) \/ checked # r)
  /\ UNCHANGED now

\* printDMXData has returned: lastFrameTime = millis(), the timeout check.
LoopAfterPrint ==
  /\ pc = "print"
  /\ LET r == [Cur EXCEPT !.lastFrameTime = millis]
         checked == TimeoutCheck(r, millis)
     IN  /\ Assign(checked)
         /\ lost' = (lost \/ checked # r)
  /\ pc' = "loop"
  /\ UNCHANGED <<rxBuf, now, brk, run, published, everCompleted, completedAt,
                 cutAt, malformed, rxAt, prevAt, lastByteAt, gap, printRef>>

\* loop() runs again and again, far faster than bytes arrive: while it is
\* not inside printDMXData, a waiting byte or a due print or timeout is
\* handled before the clock moves on, and the clock does not step over the
\* moment at which the next print falls due.
LoopHasWork ==
  /\ pc = "loop"
  /\ \/ rxBuf # <<>>
     \/ PrintDue(Cur, millis)
     \/ TimeoutCheck(Cur, millis) # Cur

NoDeadlineWithin(d) ==
  \/ pc = "print"
  \/ ~dmxFrameReceived
  \/ Sub32(millis + d, lastFrameTime) <= PrintInterval + 1

\* Time passes within a millisecond.
TickMicros(d) ==
  /\ ~LoopHasWork
  /\ (now % 1000) + d <= MaxSubMs
  /\ now' = now + d
  /\ UNCHANGED <<progVars, rxBuf, rxAt, pc, histVars>>

\* Time passes up to the d-th next millisecond boundary.
TickMillis(d) ==
  /\ ~LoopHasWork
  /\ NoDeadlineWithin(d)
  /\ (now \div 1000) + d <= MaxMillis
  /\ now' = ((now \div 1000) + d) * 1000
  /\ UNCHANGED <<progVars, rxBuf, rxAt, pc, histVars>>

Next ==
  \/ \E b \in Byte : Arrive(b)
  \/ LoopBegin
  \/ LoopAfterPrint
  \/ \E d \in MicroSteps : TickMicros(d)
  \/ \E d \in MilliSteps : TickMillis(d)

Spec == Init /\ [][Next]_vars

\* --------------------------------------------- the wrap of micros()
\* The sketch has run idle, with no byte so far, until shortly before
\* micros() wraps.
InitWrap ==
  /\ dmxData = [i \in Slots |-> 0]
  /\ dmxFrameReceived = FALSE
  /\ lastFrameTime = 0
  /\ dmxState = 0
  /\ channelCount = 0
  /\ inBreak = FALSE
  /\ lastByteTime = 0
  /\ rxBuf = <<>>
  /\ now = CounterWrap - WrapLead
  /\ pc = "loop"
  /\ ev = "none"
  /\ wr = -1
  /\ brk = FALSE
  /\ run = <<>>
  /\ published = [i \in Slots |-> 0]
  /\ everCompleted = FALSE
  /\ completedAt = 0
  /\ cutAt = 0
  /\ malformed = FALSE
  /\ rxAt = <<>>
  /\ prevAt = 0
  /\ lastByteAt = 0
  /\ gap = -1
  /\ lost = FALSE
  /\ printRef = 0

\* Time passes, across the wrap.
TickWrap(d) ==
  /\ ~LoopHasWork
  /\ now + d <= CounterWrap + WrapTail
  /\ now' = now + d
  /\ UNCHANGED <<progVars, rxBuf, rxAt, pc, histVars>>

NextWrap ==
  \/ \E b \in Byte : Arrive(b)
  \/ LoopBegin
  \/ \E d \in MicroSteps : TickWrap(d)

SpecWrap == InitWrap /\ [][NextWrap]_vars

\* ----------------------------------------------------------------- claims
\* A byte was taken from the receive buffer and processed in this step.
Processed == Len(rxBuf') < Len(rxBuf)

\* C1: what a reader observes through getDMXChannel(1..DMX_CHANNELS) is all
\* zero while no frame has completed, and otherwise exactly the channel
\* values of the most recent completed frame, in every reachable state.
NoPartialPublication ==
  \/ ~everCompleted /\ \A n \in Channels : getDMXChannel(n) = 0
  \/ everCompleted /\ \A n \in Channels : getDMXChannel(n) = published[n]

\* C2: after a frame has completed, a break that cuts a later frame short
\* after its start code and at least one channel byte leaves every
\* getDMXChannel(n) at the value of the completed frame.
TruncatedFrameKeepsPublished ==
  (everCompleted /\ cutAt >= 2 /\ cutAt <= DMX_CHANNELS)
    => \A n \in Channels : getDMXChannel(n) = published[n]

\* C3: isDMXConnected() is true exactly when a frame completed less than
\* 2000 ms ago.
LinkStatusDecays ==
  isDMXConnected <=>
    (everCompleted /\ Sub32(millis, completedAt) < ConnectedWindow)

\* C4: getDMXChannel(n) is 0 for n outside 1..DMX_CHANNELS and while no frame
\* has completed, and slot n of the last completed frame in every other case.
ChannelReadsLastPublished ==
  \A n \in -1..(DMX_CHANNELS + 2) :
    getDMXChannel(n) = IF n \in Channels /\ everCompleted
                       THEN published[n] ELSE 0

\* C5: a break-flagged 0x00 followed by DMX_CHANNELS bytes without break
\* flag ends with the frame published, whatever was processed before:
\* dmxFrameReceived is set, the state is Idle and getDMXChannel(n) is the
\* n-th of those bytes.
SelfHealing ==
  Len(run) = DMX_CHANNELS + 1
    => /\ dmxFrameReceived
       /\ dmxState = 0
       /\ \A n \in Channels : getDMXChannel(n) = run[n + 1]

SelfHealingWitness ==
  /\ Len(run) = DMX_CHANNELS + 1
  /\ malformed
  /\ \E n \in Channels : run[n + 1] # 0 /\ getDMXChannel(n) = run[n + 1]

\* C6: a byte processed with the break flag set leaves the machine in
\* Receiving with channelCount = 1 when it is 0x00 and in Idle otherwise,
\* from every state.
BreakAlwaysWins ==
  [][(Processed /\ brk')
       => IF Head(rxBuf) = DMX_START_CODE
          THEN dmxState' = 1 /\ channelCount' = 1
          ELSE dmxState' = 0]_vars

BreakAlwaysWinsWitness ==
  brk /\ cutAt >= 2 /\ ev = "start" /\ dmxState = 1 /\ channelCount = 1

\* C7: the last processed byte completed a frame exactly when it was the
\* last channel byte of a run that began with a break-flagged 0x00 and had
\* no break flag since; the completion stores slot DMX_CHANNELS, sets
\* dmxFrameReceived and returns to Idle.
FrameCompletesAtLastSlot ==
  /\ (ev = "complete") <=> (Len(run) = DMX_CHANNELS + 1)
  /\ (ev = "complete")
       => dmxFrameReceived /\ dmxState = 0 /\ wr = DMX_CHANNELS

FrameCompletesAtLastSlotWitness ==
  /\ ev = "complete"
  /\ ~brk
  /\ rxBuf = <<>>
  /\ lastFrameTime = completedAt
  /\ dmxFrameReceived

\* C8: a break-flagged byte that is not 0x00 puts the machine in Idle and
\* changes neither dmxFrameReceived, nor lastFrameTime, nor any slot of
\* dmxData, nor any getDMXChannel(n).
InvalidStartCodeAbortsOnly ==
  [][(Processed /\ brk' /\ Head(rxBuf) # DMX_START_CODE)
       => /\ dmxState' = 0
          /\ dmxFrameReceived' = dmxFrameReceived
          /\ lastFrameTime' = lastFrameTime
          /\ dmxData' = dmxData
          /\ \A n \in Channels : getDMXChannel(n)' = getDMXChannel(n)]_vars

InvalidStartCodeWitness ==
  /\ ev = "badstart"
  /\ brk
  /\ dmxState = 0
  /\ everCompleted
  /\ \E n \in Channels : getDMXChannel(n) # 0

\* C9: a byte processed in Idle without break flag changes neither dmxData,
\* nor dmxState, nor channelCount, nor dmxFrameReceived, nor lastFrameTime.
IdleBytesDiscarded ==
  [][(Processed /\ dmxState = 0 /\ ~brk')
       => UNCHANGED <<dmxData, dmxState, channelCount, dmxFrameReceived,
                      lastFrameTime>>]_vars

\* An extra byte after a complete frame has been discarded.
IdleBytesDiscardedWitness ==
  /\ ev = "discard"
  /\ ~brk
  /\ channelCount = DMX_CHANNELS + 1
  /\ dmxFrameReceived
  /\ dmxData = published

\* C10: every write to dmxData targets a slot of the array, 0..DMX_CHANNELS,
\* and channelCount stays within 0..DMX_CHANNELS + 1.
BoundedChannelWrites ==
  /\ wr = -1 \/ (wr \in Slots /\ wr >= 0 /\ wr <= DMX_CHANNELS)
  /\ channelCount >= 0
  /\ channelCount <= DMX_CHANNELS + 1

BoundedChannelWritesWitness ==
  wr = DMX_CHANNELS /\ channelCount = DMX_CHANNELS + 1

\* C11: while no byte has been delivered, getDMXChannel(n) is 0 for every n
\* and isDMXConnected() is false, whatever time has passed.
ZeroState ==
  (ev = "none" /\ rxBuf = <<>>)
    => /\ \A n \in -1..(DMX_CHANNELS + 2) : getDMXChannel(n) = 0
       /\ ~isDMXConnected

\* No byte so far, and more than the connection window has passed.
ZeroStateWitness ==
  /\ ev = "none"
  /\ rxBuf = <<>>
  /\ millis > ConnectedWindow
  /\ pc = "loop"

\* C12: a byte processed at least 88 microseconds after the previous byte,
\* a gap of exactly 88 included, is treated as following a break and starts
\* a new frame (it is evaluated as a start code); a byte with a smaller gap
\* is not.
BreakAtThreshold ==
  gap >= 0 => ((gap >= BreakGap) <=> (brk /\ ev \in {"start", "badstart"}))

\* C13 as stated: whenever the state is Idle, channelCount is 0.
IdleCountZero ==
  dmxState = 0 => channelCount = 0

\* C13, amended: channelCount is 0 after a break-flagged byte that failed
\* the start-code check and 1 after one that passed it; a frame completion
\* leaves it at DMX_CHANNELS + 1, where it stays until the next break;
\* whenever the state is Idle, channelCount is 0 or DMX_CHANNELS + 1.
IdleCountZeroOrFull ==
  /\ dmxState = 0 => channelCount \in {0, DMX_CHANNELS + 1}
  /\ (brk /\ ev # "none") => channelCount = (IF ev = "start" THEN 1 ELSE 0)
  /\ ev = "badstart" => (dmxState = 0 /\ channelCount = 0)
  /\ ev = "complete" => (dmxState = 0 /\ channelCount = DMX_CHANNELS + 1)

\* Idle after a completed frame, with a later byte discarded.
IdleCountWitness ==
  /\ dmxState = 0
  /\ channelCount = DMX_CHANNELS + 1
  /\ ev = "discard"
  /\ everCompleted

\* --------------------------------------------- the signal-loss timeout
\* Time passes up to the d-th next millisecond boundary, long enough for
\* the timeout of loop() to fall due. The bytes of a frame arrive, and
\* printDMXData returns, within one clock step.
TickLoss(d) ==
  /\ pc = "loop"
  /\ ~LoopHasWork
  /\ NoDeadlineWithin(d)
  /\ (now \div 1000) + d <= LossMillis
  /\ now' = ((now \div 1000) + d) * 1000
  /\ UNCHANGED <<progVars, rxBuf, rxAt, pc, histVars>>

NextLoss ==
  \/ \E b \in Byte : Arrive(b)
  \/ LoopBegin
  \/ LoopAfterPrint
  \/ \E d \in MilliSteps : TickLoss(d)

SpecLoss == Init /\ [][NextLoss]_vars

\* ------------------------------------------ frames in quick succession
\* The clock steps of a run in which frames complete twice per print
\* interval.
StreamSteps == {PrintInterval \div 2, PrintInterval \div 2 + 1}

\* Time passes up to the d-th next millisecond boundary.
TickStream(d) ==
  /\ ~LoopHasWork
  /\ NoDeadlineWithin(d)
  /\ (now \div 1000) + d <= StreamMillis
  /\ now' = ((now \div 1000) + d) * 1000
  /\ UNCHANGED <<progVars, rxBuf, rxAt, pc, histVars>>

NextStream ==
  \/ \E b \in Byte : Arrive(b)
  \/ LoopBegin
  \/ LoopAfterPrint
  \/ \E d \in MicroSteps : TickMicros(d)
  \/ \E d \in StreamSteps : TickStream(d)

SpecStream == Init /\ [][NextStream]_vars

\* C14: the first byte ever processed is classified as following a break,
\* whatever micros() is when it is processed, so a first byte 0x00 starts a
\* frame.
FirstByteIsBreak ==
  [][(Processed /\ ev = "none")
       => /\ brk'
          /\ Head(rxBuf) = DMX_START_CODE
               => (dmxState' = 1 /\ channelCount' = 1)]_vars

\* C15: lastByteTime is micros() of the last processed byte, whatever
\* receiveDMX did with the byte.
LastByteTimeAlwaysSet ==
  ev # "none" => lastByteTime = lastByteAt % CounterWrap

\* The byte was rejected as an invalid start code, by the early return.
LastByteTimeWitness ==
  /\ ev = "badstart"
  /\ lastByteAt > 0
  /\ lastByteTime = lastByteAt
  /\ malformed

\* C16: the break flag of a byte is decided by the gap between its arrival
\* and the arrival of the byte before it: arrived less than 88 microseconds
\* after it, never a break; arrived after a real break, always one.
ArrivalGapDecides ==
  [][(Processed /\ ev # "none")
       => /\ Head(rxAt) - prevAt < BreakGap => ~brk'
          /\ Head(rxAt) - prevAt > BreakGap => brk']_vars

\* C20: when micros() wraps between two processed bytes, the break flag of
\* the second is the one the true elapsed time gives: a break exactly when
\* more than 88 microseconds have passed.
WrapKeepsClassification ==
  gap >= 0 => (brk <=> gap > BreakGap)

\* Two bytes of one frame 88 microseconds apart, the first before the wrap
\* and the second after it; the second was stored.
WrapWitness ==
  /\ gap = BreakGap
  /\ lastByteAt >= CounterWrap
  /\ lastByteAt - gap < CounterWrap
  /\ ~brk
  /\ ev = "store"

\* C19: slot 0 of the frame buffer holds 0x00 in every reachable state.
StartSlotIsZero ==
  dmxData[0] = DMX_START_CODE

\* A non-zero byte was offered as start code after a complete frame, and
\* rejected.
StartSlotWitness ==
  /\ ev = "badstart"
  /\ everCompleted
  /\ dmxData[0] = DMX_START_CODE

\* C18: while dmxFrameReceived is true, printDMXData is called again within
\* about 1000 ms: once loop() has caught up with the clock, no more than
\* twice the print interval has passed since the last call (or since
\* dmxFrameReceived became true), also when frames keep completing.
PrintedEverySecond ==
  (dmxFrameReceived /\ pc = "loop" /\ ~LoopHasWork)
     => Sub32(millis, printRef) <= 2 * PrintInterval

\* C17: once a frame has been completed and no frame has completed for more
\* than 5000 ms, loop() takes the signal-lost branch: at the latest one
\* print interval after the 5000 ms, when loop() has caught up with the
\* clock, the branch has been taken since the last completion.
SignalLossReported ==
  (/\ everCompleted
   /\ Sub32(millis, completedAt) > SignalTimeout + PrintInterval
   /\ pc = "loop"
   /\ ~LoopHasWork)
     => lost

====
